---- MODULE Spec2Model ----
(***************************************************************************)
(* Model of LinkManager (src/src/linkManager.ts): the map of tracked       *)
(* links, the legend of link types with its palette cursor and vertical    *)
(* offset, and the Pixi display list the manager adds elements to and      *)
(* removes them from; and of the update loop of the plugin                 *)
(* (src/src/main.ts) that calls the manager on the frames of the host.     *)
(*                                                                         *)
(* Spec is the manager under any calls of its methods, SpecAcquire the     *)
(* manager under additions only, SpecWide the manager under additions and  *)
(* removals with a longer palette, SpecRefresh the manager under           *)
(* additions, removals and refreshes, SpecLoop the plugin with its         *)
(* manager.                                                                *)
(*                                                                         *)
(* Strings are sequences of characters; a word that the code never looks   *)
(* into ("parent", "a") is one character of the sequence, so that          *)
(* concatenation (generateKey, the "\n\n" of a paired label) and the       *)
(* removal of line breaks (removeLink) are computed as the code computes   *)
(* them.                                                                   *)
(***************************************************************************)
EXTENDS Integers, Sequences, FiniteSets, TLC

VARIABLES linksMap, tagColors, currentTagColorIndex, yOffset, stage, call, run,
          scenario

\* categoricalColors of the manager: the colours the legend takes from; no
\* method changes it
VARIABLES palette

\* The plugin (src/src/main.ts) and its host: the renderer the plugin holds,
\* the id of the frame it requested last, its settings, the links of the
\* renderer, whether a graph view is open, the frame ids the host has handed
\* out and the requested frames of updatePositions, the handlers that wait
\* in an await, and what the last tick did.
VARIABLES currentRenderer, animationFrameId, settings, links, rendererFound,
          lastFrameId, pending, waiting, saving, tick

managerVars == <<linksMap, tagColors, currentTagColorIndex, yOffset, stage>>

historyVars == <<call, run, scenario>>

pluginVars == <<currentRenderer, animationFrameId, settings, links,
                rendererFound, lastFrameId, pending, waiting, saving, tick>>

vars == <<linksMap, tagColors, currentTagColorIndex, yOffset, stage, call, run,
          scenario, palette, currentRenderer, animationFrameId, settings, links,
          rendererFound, lastFrameId, pending, waiting, saving, tick>>

----------------------------------------------------------------------------
(* Bounds of the model *)

\* how many links the map tracks at once
MaxLinks == 3

\* how many entries of categoricalColors the model's palette keeps
PaletteLen == 2

\* the frame ids the host has handed out when the plugin is loaded, and the
\* last frame id it hands out
FramesBefore == 8
MaxFrameId == 21

\* how many frames of updatePositions are requested at once
MaxPending == 2

\* how many handlers wait in an await at once
MaxAwaiting == 1

----------------------------------------------------------------------------
(* Inputs *)

\* the links the renderer can show, each with the ids (note paths) of its
\* two nodes: a pair of opposite links, a third link from the same source,
\* and a link from a node to itself
AllLinks ==
    { [source |-> <<"a">>, target |-> <<"b">>],
      [source |-> <<"b">>, target |-> <<"a">>],
      [source |-> <<"a">>, target |-> <<"c">>],
      [source |-> <<"a">>, target |-> <<"a">>] }

\* what getMetadataKeyForLink returns: a YAML key of the source page, or null
null == <<"<null>">>
MetadataKeys == {<<"parent">>, <<"child">>}
getMetadataKeyForLink == MetadataKeys \cup {null}

----------------------------------------------------------------------------
(* Constants of the code *)

categoricalColors ==
    << "F44336", "03A9F4", "FF9800", "9C27B0", "CDDC39",
       "3F51B5", "FFC107", "00BCD4", "E91E63", "4CAF50",
       "FF5722", "673AB7", "9E9E9E", "2196F3", "8BC34A",
       "795548", "009688", "607D8B", "FFEB3B", "000000" >>

\* the palette of the model: the first n colours
PaletteOf(n) == SubSeq(categoricalColors, 1, n)

\* this.categoricalColors
Palette == palette

InitialYOffset == 5
lineHeight == 17

\* LinkPair
None == "None"
First == "First"
Second == "Second"

\* the colour of a Graphics whose lineStyle got an undefined colour
undefined == "undefined"

\* Opacities (alpha), in hundredths: of an object as Pixi creates it (1), of
\* a hidden label or legend row (0.0), of a label whose nodes give no
\* opacity (0.9), of a line that was redrawn (0.6)
NewAlpha == 100
HiddenAlpha == 0
DefaultLabelAlpha == 90
GraphicsAlpha == 60

\* link.source.text / link.target.text or its alpha is missing
NoAlpha == -1

\* The identity of a Pixi object (a Text or a Graphics).  An object is named
\* by what it was created as and for (the label or the line of the link with
\* some key, the text or the line of the legend row of some type) and by a
\* number that tells it from the other objects created as the same.
ObjectId(kind, of, n) == [kind |-> kind, of |-> of, n |-> n]

\* a null element (pixiText: null, pixiGraphics: null)
NoElement == [id |-> ObjectId("null", <<>>, 0)]
IsNull(e) == e.id = NoElement.id

NL == "\n"

----------------------------------------------------------------------------
(* Maps: a JS Map (linksMap, tagColors) is the function from its keys to   *)
(* their values.                                                           *)

EmptyMap == [key \in {} |-> key]
MapKeys(m) == DOMAIN m
MapSize(m) == Cardinality(DOMAIN m)
MapValues(m) == { m[key] : key \in DOMAIN m }
MapHas(m, key) == key \in DOMAIN m
MapValue(m, key) == m[key]
MapSet(m, key, value) ==
    [k \in DOMAIN m \cup {key} |-> IF k = key THEN value ELSE m[k]]
MapDelete(m, key) == [k \in DOMAIN m \ {key} |-> m[k]]

generateKey(sourceId, targetId) == sourceId \o <<"-">> \o targetId

----------------------------------------------------------------------------
(* The state of the manager and of the display list as one record, so that *)
(* the methods are operators from state to state.  lookups counts the      *)
(* calls of getMetadataKeyForLink made since the method was entered.       *)

State ==
    [ linksMap |-> linksMap,
      tagColors |-> tagColors,
      currentTagColorIndex |-> currentTagColorIndex,
      yOffset |-> yOffset,
      stage |-> stage,
      lookups |-> 0 ]

\* the ids of the elements a state refers to: those on the display list and
\* those a link or a legend entry holds
LinkElements(v) == {v.pixiText.id, v.pixiGraphics.id} \ {NoElement.id}
LegendElements(g) == {g.legendText.id, g.legendGraphics.id}
UsedIds(st) ==
    st.stage
    \cup UNION { LinkElements(v) : v \in MapValues(st.linksMap) }
    \cup UNION { LegendElements(g) : g \in MapValues(st.tagColors) }

\* new Text(...) / new Graphics(): an object that nothing refers to yet
NewId(st, kind, of) ==
    LET n == CHOOSE n \in 1..(Cardinality(UsedIds(st)) + 1) :
                 /\ ObjectId(kind, of, n) \notin UsedIds(st)
                 /\ \A m \in 1..(n - 1) : ObjectId(kind, of, m) \in UsedIds(st)
    IN ObjectId(kind, of, n)

addChild(st, id) == [st EXCEPT !.stage = @ \cup {id}]
removeChild(st, id) == [st EXCEPT !.stage = @ \ {id}]

----------------------------------------------------------------------------
(* initializeLinkText: the label of a link.  key is what                   *)
(* getMetadataKeyForLink returned for the link.                            *)

\* the string of the label: emptied for a link of a node to itself, and
\* two line breaks after (First) or before (Second) it for a paired link
LinkTextStringKeepsSelf(link, pairStatus, key) ==
    IF pairStatus = First THEN key \o <<NL, NL>>
    ELSE IF pairStatus = Second THEN <<NL, NL>> \o key
    ELSE key

LinkTextString(link, pairStatus, key) ==
    LET linkString == IF link.source = link.target THEN <<>> ELSE key
    IN IF pairStatus = First THEN linkString \o <<NL, NL>>
       ELSE IF pairStatus = Second THEN <<NL, NL>> \o linkString
       ELSE linkString

\* a call of getMetadataKeyForLink: one more lookup (what it returns is the
\* key the caller was given)
Lookup(st) == [st EXCEPT !.lookups = @ + 1]

initializeLinkText(st0, link, pairStatus, key) ==
    LET st == Lookup(st0)
    IN IF key = null
       THEN [st |-> st, element |-> NoElement]
       ELSE LET text == [id |-> NewId(st, "Text",
                                      generateKey(link.source, link.target)),
                         text |-> LinkTextString(link, pairStatus, key),
                         alpha |-> NewAlpha]
            IN [st |-> addChild(st, text.id), element |-> text]

----------------------------------------------------------------------------
(* initializeLinkGraphics: the coloured line of a link, and the legend row *)
(* of its type when the type has none.                                     *)

\* nUsing of a legend entry that was just created
NewLegendNUsing == 0

NextColorIndexNoAdvance(index) == index % Len(Palette)

\* the palette cursor after a colour was taken
NextColorIndex(index) == (index + 1) % Len(Palette)

\* the legend offset after a row was added
NextYOffset(y) == y + lineHeight

NewLegendEntryOmitsHidden(st, linkString, tagLegend) ==
    LET color == Palette[st.currentTagColorIndex + 1]
        textL == [id |-> NewId(st, "legendText", linkString), text |-> linkString, y |-> st.yOffset,
                  alpha |-> IF tagLegend THEN NewAlpha ELSE HiddenAlpha]
        st1 == IF tagLegend THEN addChild(st, textL.id) ELSE st
        graphicsL == [id |-> NewId(st1, "legendGraphics", linkString),
                      color |-> color, y |-> st.yOffset,
                      alpha |-> IF tagLegend THEN NewAlpha ELSE HiddenAlpha]
        st2 == IF tagLegend THEN addChild(st1, graphicsL.id) ELSE st1
        newLegendGraphic == [color |-> color, legendText |-> textL,
                             legendGraphics |-> graphicsL,
                             nUsing |-> NewLegendNUsing]
    IN [st2 EXCEPT
          !.currentTagColorIndex = NextColorIndex(@),
          !.yOffset = NextYOffset(@),
          !.tagColors = MapSet(@, linkString, newLegendGraphic)]

\* a type that has no legend entry: take the colour at the cursor, add the
\* row (text and line) at the current offset, store the entry
NewLegendEntry(st, linkString, tagLegend) ==
    LET color == Palette[st.currentTagColorIndex + 1]
        textL == [id |-> NewId(st, "legendText", linkString), text |-> linkString, y |-> st.yOffset,
                  alpha |-> IF tagLegend THEN NewAlpha ELSE HiddenAlpha]
        st1 == addChild(st, textL.id)
        graphicsL == [id |-> NewId(st1, "legendGraphics", linkString),
                      color |-> color, y |-> st.yOffset,
                      alpha |-> IF tagLegend THEN NewAlpha ELSE HiddenAlpha]
        st2 == addChild(st1, graphicsL.id)
        newLegendGraphic == [color |-> color, legendText |-> textL,
                             legendGraphics |-> graphicsL,
                             nUsing |-> NewLegendNUsing]
    IN [st2 EXCEPT
          !.currentTagColorIndex = NextColorIndex(@),
          !.yOffset = NextYOffset(@),
          !.tagColors = MapSet(@, linkString, newLegendGraphic)]

UseLegendEntryNoCount(st, linkString) == st

\* a type that has a legend entry: one more user
UseLegendEntry(st, linkString) ==
    [st EXCEPT !.tagColors[linkString].nUsing = @ + 1]

initializeLinkGraphicsAnyKey(st0, link, tagLegend, key) ==
    LET st == Lookup(st0)
        self == link.source = link.target
        st1 == IF self THEN st
               ELSE IF ~MapHas(st.tagColors, key)
                    THEN NewLegendEntry(st, key, tagLegend)
                    ELSE UseLegendEntry(st, key)
        color == IF self THEN undefined ELSE st1.tagColors[key].color
        graphics == [id |-> NewId(st1, "Graphics",
                                  generateKey(link.source, link.target)),
                     color |-> color, alpha |-> NewAlpha]
    IN [st |-> addChild(st1, graphics.id), element |-> graphics]

initializeLinkGraphicsOfSelf(st0, link, tagLegend, key) ==
    LET st == Lookup(st0)
    IN IF key = null
       THEN [st |-> st, element |-> NoElement]
       ELSE LET st1 == IF ~MapHas(st.tagColors, key)
                       THEN NewLegendEntry(st, key, tagLegend)
                       ELSE UseLegendEntry(st, key)
                graphics == [id |-> NewId(st1, "Graphics",
                                        generateKey(link.source, link.target)),
                             color |-> st1.tagColors[key].color,
                             alpha |-> NewAlpha]
            IN [st |-> addChild(st1, graphics.id), element |-> graphics]

initializeLinkGraphics(st0, link, tagLegend, key) ==
    LET st == Lookup(st0)
    IN IF key = null
       THEN [st |-> st, element |-> NoElement]
       ELSE LET self == link.source = link.target
                st1 == IF self THEN st
                       ELSE IF ~MapHas(st.tagColors, key)
                            THEN NewLegendEntry(st, key, tagLegend)
                            ELSE UseLegendEntry(st, key)
                color == IF self THEN undefined ELSE st1.tagColors[key].color
                graphics == [id |-> NewId(st1, "Graphics",
                                        generateKey(link.source, link.target)),
                             color |-> color, alpha |-> NewAlpha]
            IN [st |-> addChild(st1, graphics.id), element |-> graphics]

----------------------------------------------------------------------------
(* addLink *)

\* Second when the opposite link is tracked, None otherwise and for a link
\* of a node to itself
NewPairStatusNone(m, link) == None

NewPairStatus(m, link) ==
    IF link.source # link.target
       /\ MapHas(m, generateKey(link.target, link.source))
    THEN Second
    ELSE None

MarkReverseFirstNot(m, link) == m

MarkReverseSecond(m, link) ==
    LET reverseKey == generateKey(link.target, link.source)
    IN IF link.source # link.target /\ MapHas(m, reverseKey)
       THEN MapSet(m, reverseKey,
                   [MapValue(m, reverseKey) EXCEPT !.pairStatus = Second])
       ELSE m

\* the opposite link, when tracked, becomes First
MarkReverseFirst(m, link) ==
    LET reverseKey == generateKey(link.target, link.source)
    IN IF link.source # link.target /\ MapHas(m, reverseKey)
       THEN MapSet(m, reverseKey,
                   [MapValue(m, reverseKey) EXCEPT !.pairStatus = First])
       ELSE m

addLink(st, link, tagColorsOn, tagLegend, key) ==
    LET pairStatus == NewPairStatus(st.linksMap, link)
        t == initializeLinkText(st, link, pairStatus, key)
        g == IF tagColorsOn
             THEN initializeLinkGraphics(t.st, link, tagLegend, key)
             ELSE [st |-> t.st, element |-> NoElement]
        newLink == [obsidianLink |-> link,
                    pairStatus |-> pairStatus,
                    pixiText |-> t.element,
                    pixiGraphics |-> g.element]
        st1 == [g.st EXCEPT
                  !.linksMap = MapSet(@, generateKey(link.source, link.target),
                                      newLink)]
    IN [st1 EXCEPT !.linksMap = MarkReverseFirst(@, link)]

----------------------------------------------------------------------------
(* removeLink *)

\* text.replace(/\r?\n/g, ""): the string without its line breaks
StripNewlines(text) == SelectSeq(text, LAMBDA c : c # NL)

RemoveIfAttachedNot(st, element) == st

\* removeChild and destroy of an element, done only when the element is a
\* child of the stage
RemoveIfAttached(st, element) ==
    IF ~IsNull(element) /\ element.id \in st.stage
    THEN removeChild(st, element.id)
    ELSE st

PrevColorIndexNoWrap(index) == index - 1

\* the palette cursor after a legend entry was dropped: one back, and the
\* last index when that is below 0
PrevColorIndex(index) ==
    IF index - 1 < 0 THEN Len(Palette) - 1 ELSE index - 1

\* the legend offset after a row was dropped
PrevYOffset(y) == y - lineHeight

NoLongerUsedAtZero(nUsing) == nUsing = 0

\* whether a legend entry with this (already decremented) nUsing is dropped
NoLongerUsed(nUsing) == nUsing < 1

\* the legend entry of colorKey loses a user; without users it is dropped:
\* offset and cursor go one back, its row leaves the stage, the entry is
\* deleted
ReleaseLegendEntry(st, colorKey) ==
    LET legendGraphic == [st.tagColors[colorKey] EXCEPT !.nUsing = @ - 1]
    IN IF NoLongerUsed(legendGraphic.nUsing)
       THEN LET st1 == [st EXCEPT
                          !.yOffset = PrevYOffset(@),
                          !.currentTagColorIndex = PrevColorIndex(@)]
                st2 == RemoveIfAttached(st1, legendGraphic.legendText)
                st3 == RemoveIfAttached(st2, legendGraphic.legendGraphics)
            IN [st3 EXCEPT !.tagColors = MapDelete(@, colorKey)]
       ELSE [st EXCEPT !.tagColors[colorKey] = legendGraphic]

ResetReverseDeletes(m, link) ==
    LET reverseKey == generateKey(link.target, link.source)
    IN IF MapHas(m, reverseKey) THEN MapDelete(m, reverseKey) ELSE m

\* the opposite link, when tracked and paired, becomes None
ResetReverse(m, link) ==
    LET reverseKey == generateKey(link.target, link.source)
    IN IF MapHas(m, reverseKey)
          /\ MapValue(m, reverseKey).pairStatus # None
       THEN MapSet(m, reverseKey,
                   [MapValue(m, reverseKey) EXCEPT !.pairStatus = None])
       ELSE m

DeleteLinkNot(m, key) == m

\* linksMap.delete(key)
DeleteLink(m, key) == MapDelete(m, key)

removeLink(st, link) ==
    LET key == generateKey(link.source, link.target)
        tracked == MapHas(st.linksMap, key)
        gltLink == MapValue(st.linksMap, key)
        st1 == IF tracked THEN RemoveIfAttached(st, gltLink.pixiText) ELSE st
        st2 == IF tracked THEN RemoveIfAttached(st1, gltLink.pixiGraphics)
               ELSE st1
        \* gltLink?.pixiText?.text?.replace(...): undefined without a label
        hasText == tracked /\ ~IsNull(gltLink.pixiText)
        colorKey == IF hasText THEN StripNewlines(gltLink.pixiText.text)
                    ELSE <<>>
        st3 == IF hasText /\ colorKey # <<>>
                  /\ MapHas(st2.tagColors, colorKey)
               THEN ReleaseLegendEntry(st2, colorKey)
               ELSE st2
        st4 == [st3 EXCEPT !.linksMap = DeleteLink(@, key)]
    IN [st4 EXCEPT !.linksMap = ResetReverse(@, link)]

----------------------------------------------------------------------------
(* updateLinkText and updateLinkGraphics: the label and the line of a      *)
(* tracked link are set to where the nodes are.  Of what they set, the     *)
(* model keeps the opacity (position, scale, fill and the points of the    *)
(* line are numbers of the renderer that nothing else reads).  alphas are  *)
(* the opacities of the labels of the two nodes, link.source.text.alpha    *)
(* and link.target.text.alpha.                                             *)

\* !x for an opacity: missing, or 0
Falsy(alpha) == alpha = NoAlpha \/ alpha = 0

\* Math.max
Max(a, b) == IF a >= b THEN a ELSE b

\* the opacity updateLinkText gives the label
LabelAlpha(tagNames, alphas) ==
    IF tagNames
    THEN IF Falsy(alphas.target) \/ Falsy(alphas.source)
         THEN DefaultLabelAlpha
         ELSE Max(alphas.source, alphas.target)
    ELSE HiddenAlpha

updateLinkText(st, link, tagNames, alphas) ==
    LET linkKey == generateKey(link.source, link.target)
    IN IF ~MapHas(st.linksMap, linkKey)
       THEN st
       ELSE LET text == MapValue(st.linksMap, linkKey).pixiText
            IN IF ~IsNull(text) /\ text.id \in st.stage
               THEN [st EXCEPT !.linksMap[linkKey].pixiText.alpha =
                                   LabelAlpha(tagNames, alphas)]
               ELSE st

\* The vector (nx, ny) before it is divided by its length, and the square of
\* that length: the quotient is a number only when the length is not zero.
calculateNormal(sourceX, sourceY, targetX, targetY) ==
    LET dx == targetX - sourceX
        dy == targetY - sourceY
        nx == 0 - dy
        ny == dx
    IN [nx |-> nx, ny |-> ny, length2 |-> nx * nx + ny * ny]

calculateParallel(sourceX, sourceY, targetX, targetY) ==
    LET dx == targetX - sourceX
        dy == targetY - sourceY
    IN [px |-> dx, py |-> dy, length2 |-> dx * dx + dy * dy]

\* The squared lengths updateLinkGraphics divides by, in the order of the
\* divisions, for a link whose source is at `source` and target at `target`.
Divisors(st, link, source, target) ==
    IF ~MapHas(st.linksMap, generateKey(link.source, link.target))
    THEN <<>>
    ELSE << calculateNormal(source.x, source.y, target.x, target.y).length2,
            calculateParallel(source.x, source.y, target.x, target.y).length2 >>

updateLinkGraphicsAcquires(st, link) ==
    LET linkKey == generateKey(link.source, link.target)
    IN IF ~MapHas(st.linksMap, linkKey)
       THEN st
       ELSE LET gltLink == MapValue(st.linksMap, linkKey)
                type == IF IsNull(gltLink.pixiText) THEN <<>>
                        ELSE StripNewlines(gltLink.pixiText.text)
                st1 == IF MapHas(st.tagColors, type)
                       THEN UseLegendEntry(st, type)
                       ELSE st
            IN IF ~IsNull(gltLink.pixiGraphics)
                  /\ gltLink.pixiGraphics.id \in st.stage
               THEN [st1 EXCEPT !.linksMap[linkKey].pixiGraphics =
                                    [id |-> gltLink.pixiGraphics.id,
                                     color |-> gltLink.pixiGraphics.color,
                                     alpha |-> GraphicsAlpha]]
               ELSE st1

\* the line is cleared and drawn again with the colour it had
updateLinkGraphics(st, link) ==
    LET linkKey == generateKey(link.source, link.target)
    IN IF ~MapHas(st.linksMap, linkKey)
       THEN st
       ELSE LET graphics == MapValue(st.linksMap, linkKey).pixiGraphics
            IN IF ~IsNull(graphics) /\ graphics.id \in st.stage
               THEN [st EXCEPT !.linksMap[linkKey].pixiGraphics =
                                   [id |-> graphics.id,
                                    color |-> graphics.color,
                                    alpha |-> GraphicsAlpha]]
               ELSE st

----------------------------------------------------------------------------
(* removeLinks and destroyMap: linksMap.forEach, removing entries on the   *)
(* way.  forEach visits every entry once, in the order of insertion, and a *)
(* visit deletes no entry but the visited one.  The order of the visits    *)
(* does not change the outcome (ForEachOrderIrrelevant below), and the     *)
(* model visits the keys in an order of its own.                           *)

RECURSIVE ForEachRemove(_, _, _)
ForEachRemove(st, keys, currentKeys) ==
    IF keys = {}
    THEN st
    ELSE LET key == CHOOSE k \in keys : TRUE
             st1 == IF MapHas(st.linksMap, key) /\ key \notin currentKeys
                    THEN removeLink(st, MapValue(st.linksMap, key).obsidianLink)
                    ELSE st
         IN ForEachRemove(st1, keys \ {key}, currentKeys)

removeLinksAll(st, currentLinks) ==
    ForEachRemove(st, MapKeys(st.linksMap), {})

removeLinksNone(st, currentLinks) == st

removeLinks(st, currentLinks) ==
    LET currentKeys == { generateKey(l.source, l.target) : l \in currentLinks }
    IN ForEachRemove(st, MapKeys(st.linksMap), currentKeys)

destroyMapOne(st) ==
    IF MapSize(st.linksMap) > 0
    THEN ForEachRemove(st, {CHOOSE k \in MapKeys(st.linksMap) : TRUE}, {})
    ELSE st

destroyMap(st) ==
    IF MapSize(st.linksMap) > 0
    THEN ForEachRemove(st, MapKeys(st.linksMap), {})
    ELSE st

----------------------------------------------------------------------------
(* The state machine: the calls made on the manager.                       *)
(*                                                                         *)
(* call records the last call: the method, its link or its list of links,  *)
(* for removeLink whether the key was in the map (for destroyMap: the      *)
(* links that were in the map, and whether the legend had an entry), and   *)
(* the number of calls of getMetadataKeyForLink it made, and for addLink   *)
(* what getMetadataKeyForLink returned (null else).  run records the       *)
(* calls since a type without legend entry was first acquired, as long as  *)
(* they only acquire that type (addLink with colours on, for a link        *)
(* between two nodes) and then only remove the links so added.             *)

NoLink == [source |-> <<>>, target |-> <<>>]

\* currentRenderer: null, or the renderer of the graph view
NoRenderer == "null"
Renderer == "renderer"

\* animationFrameId: null; the ids the host hands out start at 1
NullFrameId == 0

DEFAULT_SETTINGS == [tagColors |-> FALSE, tagNames |-> TRUE, tagLegend |-> TRUE]

\* what a tick did: the calls it made on the manager, in order, the number of
\* ticks with a renderer since the last one that updated the map (or since
\* the loop was started), and the keys its removeLinks took from the map
NoTick == [trace |-> <<>>, sinceSync |-> 0, removed |-> {}]

Call(op, link, list, found, lookups, key) ==
    [op |-> op, link |-> link, links |-> list, found |-> found,
     lookups |-> lookups, key |-> key, divisors |-> <<>>]

NoRun == [key |-> null, index |-> 0, y |-> 0, added |-> {}, removed |-> {}]

RunAfterAdd(link, tagColorsOn, key) ==
    IF tagColorsOn /\ key # null /\ link.source # link.target
    THEN IF run.key = key /\ run.removed = {}
         THEN [run EXCEPT !.added = @ \cup {link}]
         ELSE IF key \notin DOMAIN tagColors
              THEN [key |-> key, index |-> currentTagColorIndex,
                    y |-> yOffset, added |-> {link}, removed |-> {}]
              ELSE NoRun
    ELSE NoRun

RunAfterRemove(link) ==
    IF run.key # null /\ link \in run.added \ run.removed
    THEN [run EXCEPT !.removed = @ \cup {link}]
    ELSE NoRun

\* The edges of the scenario, in the order they are added: (A,B) with key
\* "parent", (B,A) with key "child", (A,C) with key "parent".
ScenarioEdges ==
    << [link |-> [source |-> <<"a">>, target |-> <<"b">>], key |-> <<"parent">>],
       [link |-> [source |-> <<"b">>, target |-> <<"a">>], key |-> <<"child">>],
       [link |-> [source |-> <<"a">>, target |-> <<"c">>], key |-> <<"parent">>] >>

\* the manager as the constructor leaves it
IsEmptyManager ==
    /\ linksMap = EmptyMap
    /\ tagColors = EmptyMap
    /\ currentTagColorIndex = 0
    /\ yOffset = InitialYOffset
    /\ stage = {}

\* scenario is the number of edges of the scenario added so far, when the
\* calls since the manager was empty are exactly these additions; 0 otherwise
ScenarioAfterAdd(link, key) ==
    LET n == IF IsEmptyManager THEN 0 ELSE scenario
    IN IF /\ n < Len(ScenarioEdges)
          /\ (n = 0 => IsEmptyManager)
          /\ (n > 0 => scenario = n)
          /\ ScenarioEdges[n + 1] = [link |-> link, key |-> key]
       THEN n + 1
       ELSE 0

Becomes(st) ==
    /\ linksMap' = st.linksMap
    /\ tagColors' = st.tagColors
    /\ currentTagColorIndex' = st.currentTagColorIndex
    /\ yOffset' = st.yOffset
    /\ stage' = st.stage

\* the manager as the constructor leaves it, with a palette of n colours, and
\* the plugin before onload
InitWith(n) ==
    /\ palette = PaletteOf(n)
    /\ linksMap = EmptyMap
    /\ tagColors = EmptyMap
    /\ currentTagColorIndex = 0
    /\ yOffset = InitialYOffset
    /\ stage = {}
    /\ call = Call("new", NoLink, {}, FALSE, 0, null)
    /\ run = NoRun
    /\ scenario = 0
    /\ currentRenderer = NoRenderer
    /\ animationFrameId = NullFrameId
    /\ settings = DEFAULT_SETTINGS
    /\ links = <<>>
    /\ rendererFound = FALSE
    /\ lastFrameId = FramesBefore
    /\ pending = {}
    /\ waiting = 0
    /\ saving = 0
    /\ tick = NoTick

Init == InitWith(PaletteLen)

\* addLink as updatePositions calls it: for a link whose key is not in the
\* map
AddLinkOf(link, tagColorsOn, tagLegend, key) ==
    /\ MapSize(linksMap) < MaxLinks
    /\ ~MapHas(linksMap, generateKey(link.source, link.target))
    /\ \E st \in {addLink(State, link, tagColorsOn, tagLegend, key)} :
          /\ Becomes(st)
          /\ call' = Call("addLink", link, {}, FALSE, st.lookups, key)
    /\ run' = RunAfterAdd(link, tagColorsOn, key)
    /\ scenario' = ScenarioAfterAdd(link, key)
    /\ UNCHANGED <<palette, pluginVars>>

AddLink ==
    \E link \in AllLinks, tagColorsOn \in BOOLEAN, tagLegend \in BOOLEAN,
       key \in getMetadataKeyForLink :
        AddLinkOf(link, tagColorsOn, tagLegend, key)

RemoveLinkOf(link) ==
    /\ \E st \in {removeLink(State, link)} :
          /\ Becomes(st)
          /\ call' = Call("removeLink", link, {},
                          MapHas(linksMap,
                                 generateKey(link.source, link.target)),
                          st.lookups, null)
    /\ run' = RunAfterRemove(link)
    /\ scenario' = 0
    /\ UNCHANGED <<palette, pluginVars>>

RemoveLink == \E link \in AllLinks : RemoveLinkOf(link)

RemoveLinks ==
    \E currentLinks \in SUBSET AllLinks :
        /\ \E st \in {removeLinks(State, currentLinks)} :
              /\ Becomes(st)
              /\ call' = Call("removeLinks", NoLink, currentLinks, FALSE,
                              st.lookups, null)
        /\ run' = NoRun
        /\ scenario' = 0
        /\ UNCHANGED <<palette, pluginVars>>

DestroyMap ==
    /\ \E st \in {destroyMap(State)} :
          /\ Becomes(st)
          /\ call' = Call("destroyMap", NoLink,
                          { v.obsidianLink : v \in MapValues(linksMap) },
                          tagColors # EmptyMap, st.lookups, null)
    /\ run' = NoRun
    /\ scenario' = 0
    /\ UNCHANGED <<palette, pluginVars>>

Next == AddLink \/ RemoveLink \/ RemoveLinks \/ DestroyMap

Spec == Init /\ [][Next]_vars

----------------------------------------------------------------------------
(* Acquisitions only: links are added to a new manager and none is         *)
(* removed, with more keys than the palette of the model has colours.      *)

AcquireKeys == MetadataKeys \cup {<<"sibling">>}

Acquire ==
    \E link \in AllLinks, tagColorsOn \in BOOLEAN, tagLegend \in BOOLEAN,
       key \in AcquireKeys \cup {null} :
        AddLinkOf(link, tagColorsOn, tagLegend, key)

SpecAcquire == Init /\ [][Acquire]_vars

----------------------------------------------------------------------------
(* Acquisitions and releases in any order, with a palette that has more    *)
(* colours than the map has links: the cursor never goes round.            *)

InitWide == InitWith(PaletteLen + 1)

NextWide == AddLink \/ RemoveLink

SpecWide == InitWide /\ [][NextWide]_vars

----------------------------------------------------------------------------
(* The manager under additions, removals and refreshes: updateLinkText and *)
(* updateLinkGraphics are called for any link, tracked or not, with any    *)
(* opacities of the labels of its two nodes.                               *)

\* the opacities a label of a node can have: none, hidden, half (0.5), full
HalfAlpha == 50
NodeAlphas == {NoAlpha, HiddenAlpha, HalfAlpha, NewAlpha}

RefreshLinks ==
    { [source |-> <<"a">>, target |-> <<"b">>],
      [source |-> <<"b">>, target |-> <<"a">>] }

\* where the simulation of the graph may have put a node
Positions == { [x |-> 0, y |-> 0], [x |-> 3, y |-> 4] }

AddRefreshed ==
    \E link \in RefreshLinks, tagColorsOn \in BOOLEAN,
       key \in {<<"parent">>, null} :
        AddLinkOf(link, tagColorsOn, TRUE, key)

UpdateLinkText ==
    \E link \in AllLinks, tagNames \in BOOLEAN,
       alphas \in [source : NodeAlphas, target : NodeAlphas] :
        /\ link.source = link.target => alphas.source = alphas.target
        /\ Becomes(updateLinkText(State, link, tagNames, alphas))
        /\ call' = Call("updateLinkText", link, {}, MapHas(linksMap, generateKey(link.source, link.target)),
                        0, null)
        /\ run' = NoRun
        /\ scenario' = 0
        /\ UNCHANGED <<palette, pluginVars>>

UpdateLinkGraphics ==
    \E link \in AllLinks, source \in Positions, target \in Positions :
        /\ link.source = link.target => source = target
        /\ Becomes(updateLinkGraphics(State, link))
        /\ call' = [Call("updateLinkGraphics", link, {},
                         MapHas(linksMap,
                                generateKey(link.source, link.target)),
                         0, null)
                        EXCEPT !.divisors =
                                   Divisors(State, link, source, target)]
        /\ run' = NoRun
        /\ scenario' = 0
        /\ UNCHANGED <<palette, pluginVars>>

NextRefresh == AddRefreshed \/ RemoveLink \/ UpdateLinkText \/ UpdateLinkGraphics

SpecRefresh == Init /\ [][NextRefresh]_vars

----------------------------------------------------------------------------
(* The manager with a link between two nodes and a link from a node to     *)
(* itself, and the refresh of their lines.                                 *)

LoopedLinks ==
    { [source |-> <<"a">>, target |-> <<"b">>],
      [source |-> <<"a">>, target |-> <<"a">>] }

AddLooped ==
    \E link \in LoopedLinks, tagColorsOn \in BOOLEAN, tagLegend \in BOOLEAN,
       key \in getMetadataKeyForLink :
        AddLinkOf(link, tagColorsOn, tagLegend, key)

RemoveLooped == \E link \in LoopedLinks : RemoveLinkOf(link)

NextGeometry == AddLooped \/ RemoveLooped \/ UpdateLinkGraphics

SpecGeometry == Init /\ [][NextGeometry]_vars

----------------------------------------------------------------------------
(* The manager with links between nodes whose ids (paths of notes) hold    *)
(* the character "-": "a-b" -> "c", "a" -> "b-c", and "c" -> "a-b", the    *)
(* opposite of the first.                                                  *)

DashLinks ==
    { [source |-> <<"a", "-", "b">>, target |-> <<"c">>],
      [source |-> <<"a">>, target |-> <<"b", "-", "c">>],
      [source |-> <<"c">>, target |-> <<"a", "-", "b">>] }

AddDashed ==
    \E link \in DashLinks, tagColorsOn \in BOOLEAN, tagLegend \in BOOLEAN,
       key \in getMetadataKeyForLink :
        AddLinkOf(link, tagColorsOn, tagLegend, key)

RemoveDashed == \E link \in DashLinks : RemoveLinkOf(link)

NextKeys == AddDashed \/ RemoveDashed

SpecKeys == Init /\ [][NextKeys]_vars

----------------------------------------------------------------------------
(* forEach: the order of the visits does not change the outcome *)

RECURSIVE ForEachRemoveInOrder(_, _, _)
ForEachRemoveInOrder(st, keys, currentKeys) ==
    IF keys = <<>>
    THEN st
    ELSE LET key == Head(keys)
             st1 == IF MapHas(st.linksMap, key) /\ key \notin currentKeys
                    THEN removeLink(st, MapValue(st.linksMap, key).obsidianLink)
                    ELSE st
         IN ForEachRemoveInOrder(st1, Tail(keys), currentKeys)

Orders(S) ==
    { o \in [1..Cardinality(S) -> S] :
        \A i, j \in 1..Cardinality(S) : i # j => o[i] # o[j] }

\* in every reachable state, and for every list of current links, visiting
\* the keys of the map in any order gives the state that ForEachRemove gives
ForEachOrderIrrelevant ==
    \A currentLinks \in SUBSET AllLinks :
        \A o \in Orders(MapKeys(linksMap)) :
            ForEachRemoveInOrder(State, o,
                { generateKey(l.source, l.target) : l \in currentLinks })
                = removeLinks(State, currentLinks)

----------------------------------------------------------------------------
(* The update loop of the plugin (src/src/main.ts).  The host hands out    *)
(* frame ids in increasing order and runs the requested frames in the      *)
(* order of the requests.  A handler that awaits (handleLayoutChange in    *)
(* waitForRenderer, the onChange of a setting in saveSettings) is two      *)
(* steps, and any other step may come between them.                        *)

\* the links the renderer of the loop can show, and renderer.links: the
\* array of the first links of a graph that grows and shrinks at its end
LoopLinks ==
    { [source |-> <<"a">>, target |-> <<"b">>],
      [source |-> <<"b">>, target |-> <<"a">>] }
LoopArray ==
    << [source |-> <<"a">>, target |-> <<"b">>],
       [source |-> <<"b">>, target |-> <<"a">>] >>
LinkArrays == { SubSeq(LoopArray, 1, n) : n \in 0..Len(LoopArray) }

\* what getMetadataKeyForLink returns for the links of the loop
LoopKeys == {<<"parent">>, null}

Range(array) == { array[i] : i \in DOMAIN array }
Min(S) == CHOOSE x \in S : \A y \in S : x <= y

\* the map is updated when animationFrameId is a multiple of this
SyncEvery == 10

\* this.animationFrameId && this.animationFrameId % 10 == 0
UpdateMap(id) == id # NullFrameId /\ id % SyncEvery = 0

\* the opacities of the labels of the two nodes of the links of the loop:
\* both labels are shown
LoopAlphas == [source |-> NewAlpha, target |-> NewAlpha]

Step(op, link) == [op |-> op, link |-> link]

RECURSIVE ForEachLinkRefreshFirst(_, _, _, _, _)
ForEachLinkRefreshFirst(r, array, updateMap, keys, s) ==
    IF array = <<>>
    THEN r
    ELSE LET link == Head(array)
             adds == /\ updateMap
                     /\ ~MapHas(r.st.linksMap,
                                generateKey(link.source, link.target))
             st1 == IF adds
                    THEN addLink(r.st, link, s.tagColors, s.tagLegend, keys[link])
                    ELSE r.st
             trace == r.trace
                      \o <<Step("updateLinkText", link)>>
                      \o (IF s.tagColors
                          THEN <<Step("updateLinkGraphics", link)>>
                          ELSE <<>>)
                      \o (IF adds THEN <<Step("addLink", link)>> ELSE <<>>)
         IN ForEachLinkRefreshFirst([st |-> st1, trace |-> trace], Tail(array),
                                    updateMap, keys, s)

\* renderer.links.forEach of updatePositions: r is the state and the calls
\* made so far, keys what getMetadataKeyForLink returns for each link
RECURSIVE ForEachLink(_, _, _, _, _)
ForEachLink(r, array, updateMap, keys, s) ==
    IF array = <<>>
    THEN r
    ELSE LET link == Head(array)
             adds == /\ updateMap
                     /\ ~MapHas(r.st.linksMap,
                                generateKey(link.source, link.target))
             st1 == IF adds
                    THEN addLink(r.st, link, s.tagColors, s.tagLegend, keys[link])
                    ELSE r.st
             st2 == updateLinkText(st1, link, s.tagNames, LoopAlphas)
             st3 == IF s.tagColors THEN updateLinkGraphics(st2, link) ELSE st2
             trace == r.trace
                      \o (IF adds THEN <<Step("addLink", link)>> ELSE <<>>)
                      \o <<Step("updateLinkText", link)>>
                      \o (IF s.tagColors
                          THEN <<Step("updateLinkGraphics", link)>>
                          ELSE <<>>)
         IN ForEachLink([st |-> st3, trace |-> trace], Tail(array),
                        updateMap, keys, s)

StartUpdateLoopAlways(renderer) ==
    /\ lastFrameId < MaxFrameId
    /\ Cardinality(pending) < MaxPending
    /\ Becomes(destroyMap(State))
    /\ lastFrameId' = lastFrameId + 1
    /\ pending' = pending \cup {lastFrameId + 1}
    /\ tick' = NoTick

\* startUpdateLoop: nothing without a renderer; else destroyMap, and a frame
\* of updatePositions is requested (its id is not kept)
StartUpdateLoop(renderer) ==
    IF renderer = NoRenderer
    THEN UNCHANGED <<managerVars, lastFrameId, pending, tick>>
    ELSE /\ lastFrameId < MaxFrameId
         /\ Cardinality(pending) < MaxPending
         /\ Becomes(destroyMap(State))
         /\ lastFrameId' = lastFrameId + 1
         /\ pending' = pending \cup {lastFrameId + 1}
         /\ tick' = NoTick

\* the user opens a graph view: findRenderer finds a renderer
OpenGraph ==
    /\ ~rendererFound
    /\ rendererFound' = TRUE
    /\ UNCHANGED <<managerVars, historyVars, palette, currentRenderer, animationFrameId,
                   settings, links, lastFrameId, pending, waiting, saving, tick>>

\* the graph changes: the renderer has other links
SetLinks ==
    \E array \in LinkArrays :
        /\ rendererFound
        /\ array # links
        /\ links' = array
        /\ UNCHANGED <<managerVars, historyVars, palette, currentRenderer,
                       animationFrameId, settings, rendererFound, lastFrameId,
                       pending, waiting, saving, tick>>

\* some other code of the host requests a frame and gets the next id; in
\* the model it does so at most once between two requests of the plugin
OtherRequest ==
    /\ lastFrameId < MaxFrameId
    /\ lastFrameId \in pending
    /\ lastFrameId' = lastFrameId + 1
    /\ UNCHANGED <<managerVars, historyVars, palette, currentRenderer, animationFrameId,
                   settings, links, rendererFound, pending, waiting, saving,
                   tick>>

\* the toggle of the settings tab the user switches: the three toggles run
\* the same code on their settings
ToggledSettings == {"tagColors"}

\* onChange of a toggle of the settings tab, up to the await of saveSettings
ToggleSetting ==
    \E name \in ToggledSettings :
        /\ waiting + saving < MaxAwaiting
        /\ settings' = [settings EXCEPT ![name] = ~@]
        /\ saving' = saving + 1
        /\ UNCHANGED <<managerVars, historyVars, palette, currentRenderer,
                       animationFrameId, links, rendererFound, lastFrameId,
                       pending, waiting, tick>>

\* onChange after the await: startUpdateLoop
SettingSaved ==
    /\ saving > 0
    /\ saving' = saving - 1
    /\ StartUpdateLoop(currentRenderer)
    /\ UNCHANGED <<historyVars, palette, currentRenderer, animationFrameId, settings,
                   links, rendererFound, waiting>>

\* handleLayoutChange (on layout-change and on dataview:metadata-change), up
\* to the await of waitForRenderer: the frame whose id is kept is cancelled
HandleLayoutChange ==
    /\ waiting + saving < MaxAwaiting
    /\ pending' = IF animationFrameId # NullFrameId
                  THEN pending \ {animationFrameId}
                  ELSE pending
    /\ animationFrameId' = NullFrameId
    /\ waiting' = waiting + 1
    /\ UNCHANGED <<managerVars, historyVars, palette, currentRenderer, settings, links,
                   rendererFound, lastFrameId, saving, tick>>

\* handleLayoutChange after the await, which ends when findRenderer finds a
\* renderer: checkAndUpdateRenderer keeps the renderer and starts the loop
CheckAndUpdateRenderer ==
    /\ waiting > 0
    /\ rendererFound
    /\ waiting' = waiting - 1
    /\ currentRenderer' = Renderer
    /\ StartUpdateLoop(Renderer)
    /\ UNCHANGED <<historyVars, palette, animationFrameId, settings, links,
                   rendererFound, saving>>

\* the host runs the requested frame of updatePositions that was requested
\* first
UpdatePositions ==
    /\ pending # {}
    /\ IF currentRenderer = NoRenderer
       THEN /\ pending' = pending \ {Min(pending)}
            /\ UNCHANGED <<managerVars, animationFrameId, lastFrameId, tick>>
       ELSE /\ lastFrameId < MaxFrameId
            /\ \E keys \in [LoopLinks -> LoopKeys],
                  updateMap \in {UpdateMap(animationFrameId)} :
                 \E r0 \in {IF updateMap
                             THEN [st |-> removeLinks(State, Range(links)),
                                   trace |-> <<Step("removeLinks", NoLink)>>]
                             ELSE [st |-> State, trace |-> <<>>]} :
                   \E r \in {ForEachLink(r0, links, updateMap, keys, settings)} :
                       /\ Becomes(r.st)
                       /\ tick' = [trace |-> r.trace,
                                   sinceSync |-> IF updateMap THEN 0
                                                 ELSE Min({tick.sinceSync + 1,
                                                           SyncEvery}),
                                   removed |-> MapKeys(linksMap)
                                               \ MapKeys(r0.st.linksMap)]
            /\ animationFrameId' = lastFrameId + 1
            /\ lastFrameId' = lastFrameId + 1
            /\ pending' = (pending \ {Min(pending)}) \cup {lastFrameId + 1}
    /\ UNCHANGED <<historyVars, palette, currentRenderer, settings, links,
                   rendererFound, waiting, saving>>

NextLoop ==
    \/ OpenGraph
    \/ SetLinks
    \/ OtherRequest
    \/ ToggleSetting
    \/ SettingSaved
    \/ HandleLayoutChange
    \/ CheckAndUpdateRenderer
    \/ UpdatePositions

SpecLoop == Init /\ [][NextLoop]_vars

----------------------------------------------------------------------------
(* Words of the properties *)

KeyOf(link) == generateKey(link.source, link.target)
KeysOf(list) == { KeyOf(l) : l \in list }
Entries == MapValues(linksMap)

\* the type a tracked link carries: the string of its label without the
\* line breaks, empty when it has no label
LabelOf(v) ==
    IF IsNull(v.pixiText) THEN <<>> ELSE StripNewlines(v.pixiText.text)

IsSelfLoop(v) == v.obsidianLink.source = v.obsidianLink.target

NumLegend == Cardinality(DOMAIN tagColors)

----------------------------------------------------------------------------
(* C1 *)

\* the elements of the entries a removeLinks call drops are off the stage
RemovedAreDetached ==
    \A key \in MapKeys(linksMap) \ MapKeys(linksMap') :
        LinkElements(linksMap[key]) \cap stage' = {}

\* C1 as stated: after removeLinks with a list of links, the keys of the map
\* are exactly the keys of the list, and the elements of every removed link
\* are off the stage.
C1_ReconcileExact ==
    [][call'.op = "removeLinks"
          => /\ MapKeys(linksMap') = KeysOf(call'.links)
             /\ RemovedAreDetached]_vars

\* C1 as amended: after removeLinks with a list of links, the keys of the
\* map are the keys it had before that are keys of the list (no key outside
\* the list is left, and no link of the list is added), and the elements of
\* every removed link are off the stage.
C1_ReconcileKeepsListed ==
    [][call'.op = "removeLinks"
          => /\ MapKeys(linksMap') = MapKeys(linksMap) \cap KeysOf(call'.links)
             /\ RemovedAreDetached]_vars

\* removeLinks has run, the map keeps a link, and a link of the list is not
\* in the map
C1_Witness ==
    /\ call.op = "removeLinks"
    /\ MapSize(linksMap) >= 1
    /\ KeysOf(call.links) \ MapKeys(linksMap) # {}
    /\ MapKeys(linksMap) \subseteq KeysOf(call.links)

----------------------------------------------------------------------------
(* C2 *)

Users(k) == { v \in Entries : LabelOf(v) = k }

\* C2: the nUsing of every legend entry is the number of tracked links that
\* carry its type, and so is at least 1.
C2_UseCountIsUsers ==
    \A k \in DOMAIN tagColors :
        /\ tagColors[k].nUsing = Cardinality(Users(k))
        /\ tagColors[k].nUsing >= 1

----------------------------------------------------------------------------
(* C3 *)

\* C3: a removeLink of a tracked link whose type is carried by another
\* tracked link with a coloured line leaves the keys of the legend, the
\* palette cursor and the legend offset as they were.
C3_ReclaimOnlyLastUser ==
    [][(/\ call'.op = "removeLink"
        /\ MapHas(linksMap, KeyOf(call'.link))
        /\ LabelOf(MapValue(linksMap, KeyOf(call'.link))) # <<>>
        /\ \E v \in Entries :
              /\ v.obsidianLink # call'.link
              /\ ~IsNull(v.pixiGraphics)
              /\ LabelOf(v) = LabelOf(MapValue(linksMap, KeyOf(call'.link))))
          => /\ DOMAIN tagColors' = DOMAIN tagColors
             /\ currentTagColorIndex' = currentTagColorIndex
             /\ yOffset' = yOffset]_vars

----------------------------------------------------------------------------
(* C4 *)

RunDone == run.key # null /\ run.removed = run.added

\* C4: when a type without legend entry was acquired N times (N >= 1) and
\* then the N links were removed, the type has no legend entry and the
\* palette cursor and the legend offset are what they were before.
C4_AcquireReleaseRestores ==
    RunDone =>
        /\ run.key \notin DOMAIN tagColors
        /\ currentTagColorIndex = run.index
        /\ yOffset = run.y

\* a run of three acquisitions and three removals is complete
C4_Witness == RunDone /\ Cardinality(run.added) = 3

----------------------------------------------------------------------------
(* C5 *)

Reverse(v) ==
    MapValue(linksMap,
             generateKey(v.obsidianLink.target, v.obsidianLink.source))
HasReverse(v) ==
    MapHas(linksMap,
           generateKey(v.obsidianLink.target, v.obsidianLink.source))

\* C5: a tracked link between two nodes is paired (First or Second) exactly
\* when the opposite link is tracked, and of two opposite tracked links one
\* is First and the other Second; so the link left by the removal of its
\* opposite is None.
C5_PairStatus ==
    \A v \in Entries :
        ~IsSelfLoop(v) =>
            /\ (v.pairStatus # None) <=> HasReverse(v)
            /\ HasReverse(v)
                  => {v.pairStatus, Reverse(v).pairStatus} = {First, Second}

\* a pair is tracked beside a third link, after a removal broke and an
\* addition made a pair again
C5_Witness ==
    /\ call.op = "addLink"
    /\ \E v \in Entries : ~IsSelfLoop(v) /\ HasReverse(v)
    /\ \E v \in Entries : ~IsSelfLoop(v) /\ ~HasReverse(v)

----------------------------------------------------------------------------
(* C6 *)

----------------------------------------------------------------------------
(* C7 *)

\* C7: after removeLink of a link, a second removeLink of the same link
\* changes nothing: the map with its pair statuses, the legend with its
\* nUsing, the palette cursor, the legend offset and the stage stay.
C7_SecondRemoveChangesNothing ==
    call.op = "removeLink" => removeLink(State, call.link) = State

\* the first removeLink found its link and dropped the legend entry of its
\* type, and the opposite link is still tracked
C7_Witness ==
    /\ call.op = "removeLink"
    /\ call.found
    /\ MapHas(linksMap, generateKey(call.link.target, call.link.source))
    /\ NumLegend >= 1

----------------------------------------------------------------------------
(* C8 *)

RowPositions == { tagColors[k].legendText.y : k \in DOMAIN tagColors }

\* C8: the rows of the legend are stacked without gap and without overlap:
\* their positions are the first NumLegend row positions.
C8_LegendGapFree ==
    RowPositions = { InitialYOffset + i * lineHeight : i \in 0..(NumLegend - 1) }

----------------------------------------------------------------------------
(* C9 *)

\* C9: the legend offset is the initial offset plus one row height for each
\* legend entry, and the palette cursor is the number of legend entries
\* modulo the size of the palette, so inside the palette.
C9_LockStep ==
    /\ yOffset = InitialYOffset + lineHeight * NumLegend
    /\ currentTagColorIndex = NumLegend % Len(Palette)
    /\ currentTagColorIndex \in 0..(Len(Palette) - 1)

\* a legend entry was dropped when the legend held as many entries as the
\* palette has colours: the cursor went from 0 back to the last index
C9_Witness ==
    /\ call.op = "removeLink"
    /\ call.found
    /\ NumLegend = Len(Palette) - 1
    /\ currentTagColorIndex = Len(Palette) - 1

----------------------------------------------------------------------------
(* C10 *)

LinkOwners(id) == { key \in MapKeys(linksMap) : id \in LinkElements(linksMap[key]) }
LegendOwners(id) == { k \in DOMAIN tagColors : id \in LegendElements(tagColors[k]) }

\* C10: every label or line on the stage belongs to exactly one tracked
\* link, and every legend text or legend line on the stage to exactly one
\* legend entry.
C10_NoLeak ==
    \A id \in stage :
        IF id.kind \in {"Text", "Graphics"}
        THEN Cardinality(LinkOwners(id)) = 1 /\ LegendOwners(id) = {}
        ELSE Cardinality(LegendOwners(id)) = 1 /\ LinkOwners(id) = {}

\* after a removeLinks that dropped the legend entry of a type, elements of
\* links and of the legend are on the stage
C10_Witness ==
    /\ call.op = "removeLinks"
    /\ \E id \in stage : id.kind = "Graphics"
    /\ \E id \in stage : id.kind = "legendText"
    /\ \E v \in Entries : LabelOf(v) # <<>> /\ LabelOf(v) \notin DOMAIN tagColors

----------------------------------------------------------------------------
(* C11 *)

\* C11: one addLink call makes at most one call of getMetadataKeyForLink,
\* with colours on or off.
C11_OneLookupPerAdd ==
    call.op = "addLink" => call.lookups <= 1

----------------------------------------------------------------------------
(* C12 *)

----------------------------------------------------------------------------
(* C16 *)

EntryOf(source, target) == MapValue(linksMap, generateKey(<<source>>, <<target>>))

\* C16 as stated: after the three additions of the scenario, (A,B) is Second
\* and (B,A) is First.
C16_ScenarioABSecond ==
    scenario = 3 =>
        /\ EntryOf("a", "b").pairStatus = Second
        /\ EntryOf("b", "a").pairStatus = First

\* C16 as amended: after the three additions of the scenario, (A,B), added
\* first, is First and (B,A), added when its opposite was tracked, is Second.
C16_ScenarioABFirst ==
    scenario = 3 =>
        /\ EntryOf("a", "b").pairStatus = First
        /\ EntryOf("b", "a").pairStatus = Second

\* the three edges of the scenario were added to an empty manager
C16_Witness ==
    scenario = 3 /\ MapSize(linksMap) = 3

----------------------------------------------------------------------------
(* C17 *)

\* the entry an addLink call made, and the key of the opposite link
Added == MapValue(linksMap', KeyOf(call'.link))
MirrorKey == generateKey(call'.link.target, call'.link.source)

\* C17: addLink of a link between two nodes makes the new entry Second
\* exactly when the opposite link is tracked, and then makes the opposite
\* entry First; otherwise the new entry is None and the pair status of every
\* other entry stays.  A link of a node to itself is None.
C17_AddPairStatus ==
    [][call'.op = "addLink" =>
         IF call'.link.source # call'.link.target
         THEN /\ (Added.pairStatus = Second) <=> MapHas(linksMap, MirrorKey)
              /\ MapHas(linksMap, MirrorKey)
                    => MapValue(linksMap', MirrorKey).pairStatus = First
              /\ ~MapHas(linksMap, MirrorKey)
                    => /\ Added.pairStatus = None
                       /\ \A k \in MapKeys(linksMap) :
                              linksMap'[k].pairStatus = linksMap[k].pairStatus
         ELSE Added.pairStatus = None]_vars

\* a link was added whose opposite was tracked, beside a third link
C17_Witness ==
    /\ call.op = "addLink"
    /\ MapValue(linksMap, KeyOf(call.link)).pairStatus = Second
    /\ MapSize(linksMap) = 3

----------------------------------------------------------------------------
(* C18 *)

\* the row of a legend entry, counted from 0: without removals the k-th
\* entry created is in row k - 1
RowIndex(k) == (tagColors[k].legendText.y - InitialYOffset) \div lineHeight

\* C18: when types are only acquired, starting from an empty legend, the
\* k-th type acquired has the palette colour of index (k - 1) modulo the
\* size of the palette (the palette of the code has 20 colours), and the
\* cursor is the number of types acquired modulo that size.
C18_KthColour ==
    /\ Len(categoricalColors) = 20
    /\ { RowIndex(k) : k \in DOMAIN tagColors } = 0..(NumLegend - 1)
    /\ \A k \in DOMAIN tagColors :
          /\ tagColors[k].color = Palette[(RowIndex(k) % Len(Palette)) + 1]
          /\ tagColors[k].legendGraphics.color = tagColors[k].color
    /\ currentTagColorIndex = NumLegend % Len(Palette)

\* "parent", then "child", then a third type were acquired: more types than
\* the palette of the model has colours
C18_Witness ==
    /\ NumLegend = 3
    /\ MapHas(tagColors, <<"parent">>) /\ RowIndex(<<"parent">>) = 0
    /\ MapHas(tagColors, <<"child">>) /\ RowIndex(<<"child">>) = 1

----------------------------------------------------------------------------
(* C19 *)

LegendRowsOn(s) == { id \in s : id.kind \in {"legendText", "legendGraphics"} }

\* C19: an addLink that acquires a type that has a legend entry gives the
\* line the colour of the entry, adds one to the nUsing of that entry, and
\* leaves the rest of the legend, the palette cursor, the legend offset and
\* the legend rows on the stage as they were.
C19_ReuseLegendEntry ==
    [][(/\ call'.op = "addLink"
        /\ ~IsNull(Added.pixiGraphics)
        /\ MapHas(tagColors, LabelOf(Added)))
          => /\ Added.pixiGraphics.color = tagColors[LabelOf(Added)].color
             /\ tagColors' = [tagColors EXCEPT ![LabelOf(Added)].nUsing = @ + 1]
             /\ currentTagColorIndex' = currentTagColorIndex
             /\ yOffset' = yOffset
             /\ LegendRowsOn(stage') = LegendRowsOn(stage)]_vars

\* a link was added with a line of a type that had a legend entry, beside
\* the legend entry of another type
C19_Witness ==
    /\ call.op = "addLink"
    /\ ~IsNull(MapValue(linksMap, KeyOf(call.link)).pixiGraphics)
    /\ MapHas(tagColors, LabelOf(MapValue(linksMap, KeyOf(call.link))))
    /\ tagColors[LabelOf(MapValue(linksMap, KeyOf(call.link)))].nUsing >= 1
    /\ NumLegend = 2

----------------------------------------------------------------------------
(* C20 *)

\* C20: every tracked link between two nodes that has a line and carries a
\* type has the colour of the legend entry of that type, which exists; so
\* all lines of one type have one colour.
C20_ColourOfLabel ==
    \A v \in Entries :
        (~IsNull(v.pixiGraphics) /\ LabelOf(v) # <<>>) =>
            /\ MapHas(tagColors, LabelOf(v))
            /\ v.pixiGraphics.color = tagColors[LabelOf(v)].color

----------------------------------------------------------------------------
(* C13 *)

\* C13: at most one frame of updatePositions is requested at any time.
C13_OnePending ==
    Cardinality(pending) <= 1

----------------------------------------------------------------------------
(* C14 *)

\* C14: in the calls of one tick, no addLink comes after an updateLinkText
\* or an updateLinkGraphics.
C14_SyncBeforeRefresh ==
    \A i, j \in DOMAIN tick.trace :
        (i < j /\ tick.trace[i].op \in {"updateLinkText", "updateLinkGraphics"})
            => tick.trace[j].op # "addLink"

\* C14 as amended: in the calls of one tick, removeLinks comes before every
\* other call, and the addLink of a link comes right before the
\* updateLinkText of that link, so before every refresh of that link (an
\* addLink of a later link of the array follows the refreshes of the earlier
\* links).
C14_AddBeforeOwnRefresh ==
    \A j \in DOMAIN tick.trace :
        /\ tick.trace[j].op = "removeLinks" => j = 1
        /\ tick.trace[j].op = "addLink" =>
              /\ j < Len(tick.trace)
              /\ tick.trace[j + 1] = Step("updateLinkText", tick.trace[j].link)
              /\ \A i \in 1..(j - 1) : tick.trace[i].link # tick.trace[j].link

\* a tick updated the map and added two links, with colours on
C14_Witness ==
    /\ Cardinality({ j \in DOMAIN tick.trace : tick.trace[j].op = "addLink" }) = 2
    /\ \E j \in DOMAIN tick.trace : tick.trace[j].op = "updateLinkGraphics"
    /\ tick.trace[1].op = "removeLinks"

----------------------------------------------------------------------------
(* C15 *)

\* C15: with a renderer, no SyncEvery ticks in a row pass without an update
\* of the map.
C15_SyncWithinTen ==
    tick.sinceSync < SyncEvery

----------------------------------------------------------------------------
(* C21: as long as the legend has fewer entries than the palette has       *)
(* colours, no two legend entries that are present at the same time have   *)
(* the same colour, whatever the order of the acquisitions and releases.   *)

C21_ColoursUnique ==
    NumLegend < Len(Palette)
        => \A k1, k2 \in MapKeys(tagColors) :
               k1 # k2 => tagColors[k1].color # tagColors[k2].color

----------------------------------------------------------------------------
(* C22 *)

\* a step of updatePositions with a renderer: the only step that sets
\* animationFrameId to the id of a new frame
TickStep == animationFrameId' = lastFrameId + 1

\* a tick that updates the map
SyncStep == TickStep /\ UpdateMap(animationFrameId)

\* C22: at the end of every tick that updates the map, the keys of the map
\* are the keys of the links of the renderer, and the removeLinks of the tick
\* removes no entry whose key is the key of a link of the renderer.
C22_MapIsLive ==
    [][SyncStep =>
          /\ MapKeys(linksMap') = KeysOf(Range(links))
          /\ \A key \in MapKeys(linksMap) \cap KeysOf(Range(links)) :
                 /\ MapHas(removeLinks(State, Range(links)).linksMap, key)
                 /\ key \notin tick'.removed]_vars

\* a tick that updated the map has removed the entry of a link that is gone
\* and kept the entry of a link that is there
C22_Witness ==
    /\ tick.trace # <<>>
    /\ tick.trace[1].op = "removeLinks"
    /\ tick.removed # {}
    /\ MapKeys(linksMap) = KeysOf(Range(links))
    /\ linksMap # EmptyMap
    /\ \A j \in DOMAIN tick.trace : tick.trace[j].op # "addLink"

----------------------------------------------------------------------------
(* C23 *)

\* the legend: its entries with their counts of users, the palette cursor
\* and the legend offset
LegendState == <<tagColors, currentTagColorIndex, yOffset>>

\* C23: an addLink for which getMetadataKeyForLink returns null gives an
\* entry without label and without line, adds nothing to the stage and leaves
\* the legend (entries, counts, cursor, offset) as it was; and a removeLink
\* of an entry without label leaves the legend as it was.
C23_NoTypeNoLegend ==
    [][/\ (call'.op = "addLink" /\ call'.key = null)
            => /\ IsNull(Added.pixiText)
               /\ IsNull(Added.pixiGraphics)
               /\ stage' = stage
               /\ LegendState' = LegendState
       /\ (/\ call'.op = "removeLink"
           /\ MapHas(linksMap, KeyOf(call'.link))
           /\ IsNull(MapValue(linksMap, KeyOf(call'.link)).pixiText))
            => LegendState' = LegendState]_vars

\* a link without type was added, with colours on, while the legend has an
\* entry
C23_Witness ==
    /\ call.op = "addLink"
    /\ call.key = null
    /\ call.lookups = 2
    /\ call.link.source # call.link.target
    /\ MapHas(linksMap, KeyOf(call.link))
    /\ tagColors # EmptyMap

----------------------------------------------------------------------------
(* C24 *)

\* C24: an addLink of a link of a node to itself (colours on or off,
\* whatever getMetadataKeyForLink returns) and a removeLink of such a link
\* leave the legend (entries, counts, cursor, offset) as it was.
C24_SelfLoopNoLegend ==
    [][(/\ call'.op \in {"addLink", "removeLink"}
        /\ call'.link.source = call'.link.target)
          => LegendState' = LegendState]_vars

\* a link of a node to itself was added with colours on and with a type
\* that has a legend entry
C24_Witness ==
    /\ call.op = "addLink"
    /\ call.link.source = call.link.target
    /\ call.lookups = 2
    /\ call.key # null
    /\ MapHas(tagColors, call.key)
    /\ MapHas(linksMap, KeyOf(call.link))

----------------------------------------------------------------------------
(* C25 *)

\* C25: a removeLink of a link whose key is not in the map changes nothing:
\* the map and the pairStatus of its entries (that of the opposite link
\* too), the legend, the palette cursor, the legend offset and the stage
\* stay as they were.
C25_RemoveUntrackedNoOp ==
    [][(/\ call'.op = "removeLink"
        /\ ~MapHas(linksMap, KeyOf(call'.link)))
          => managerVars' = managerVars]_vars

\* removeLink was called for a link that was not tracked while the opposite
\* link is tracked with a label and the legend has an entry
C25_Witness ==
    /\ call.op = "removeLink"
    /\ ~call.found
    /\ MapHas(linksMap, generateKey(call.link.target, call.link.source))
    /\ ~IsNull(MapValue(linksMap,
                        generateKey(call.link.target, call.link.source)).pixiText)
    /\ tagColors # EmptyMap

----------------------------------------------------------------------------
(* C26 *)

\* C26: while a handleLayoutChange waits between its cancellation and its
\* checkAndUpdateRenderer, no updatePositions runs with the renderer.
C26_NoTickWhileWaiting ==
    [][waiting > 0 => ~TickStep]_vars

----------------------------------------------------------------------------
(* C27 *)

\* C27: while currentRenderer is null no frame of updatePositions is
\* requested, and a step that leaves it null (a tick, a startUpdateLoop
\* after a setting was saved) changes nothing of the manager and of the
\* stage, makes no call of the manager and requests no frame.
C27_NoRendererNothing ==
    /\ [](currentRenderer = NoRenderer => pending = {})
    /\ [][(currentRenderer = NoRenderer /\ currentRenderer' = NoRenderer)
             => /\ managerVars' = managerVars
                /\ tick' = tick
                /\ pending' \subseteq pending
                /\ lastFrameId' = lastFrameId]_vars

\* startUpdateLoop has run without a renderer: a setting was switched and
\* saved before a renderer was kept
C27_Witness ==
    /\ currentRenderer = NoRenderer
    /\ settings # DEFAULT_SETTINGS
    /\ saving = 0
    /\ pending = {}
    /\ lastFrameId = FramesBefore

----------------------------------------------------------------------------
(* C28 *)

\* C28: updateLinkText gives an attached label the opacity 0 when tagNames
\* is off; when it is on, the greater of the opacities of the labels of the
\* two nodes when both have one (0 included), and 0.9 when one has none.
C28_LabelOpacity ==
    \A link \in AllLinks, tagNames \in BOOLEAN,
       alphas \in [source : NodeAlphas, target : NodeAlphas] :
        LET key == KeyOf(link)
            st == updateLinkText(State, link, tagNames, alphas)
        IN (/\ MapHas(linksMap, key)
            /\ ~IsNull(MapValue(linksMap, key).pixiText)
            /\ MapValue(linksMap, key).pixiText.id \in stage)
              => MapValue(st.linksMap, key).pixiText.alpha =
                    IF ~tagNames THEN HiddenAlpha
                    ELSE IF alphas.source # NoAlpha /\ alphas.target # NoAlpha
                         THEN Max(alphas.source, alphas.target)
                         ELSE DefaultLabelAlpha

----------------------------------------------------------------------------
(* C29 *)

\* the element a refresh is about: the label for updateLinkText, the line
\* for updateLinkGraphics
Refreshed(v) == IF call'.op = "updateLinkText" THEN v.pixiText ELSE v.pixiGraphics

\* C29: updateLinkText and updateLinkGraphics leave the keys of the map, the
\* pairStatus and the elements of every entry, the legend, the palette
\* cursor, the legend offset and the stage as they were, change no entry but
\* that of their link, and change nothing at all when the link is not
\* tracked, when its label (its line) is null or when it is not on the stage.
C29_RefreshKeepsStructure ==
    [][call'.op \in {"updateLinkText", "updateLinkGraphics"}
          => /\ MapKeys(linksMap') = MapKeys(linksMap)
             /\ \A key \in MapKeys(linksMap) :
                    /\ linksMap'[key].pairStatus = linksMap[key].pairStatus
                    /\ linksMap'[key].obsidianLink = linksMap[key].obsidianLink
                    /\ linksMap'[key].pixiText.id = linksMap[key].pixiText.id
                    /\ linksMap'[key].pixiGraphics.id = linksMap[key].pixiGraphics.id
                    /\ key # KeyOf(call'.link) => linksMap'[key] = linksMap[key]
             /\ LegendState' = LegendState
             /\ stage' = stage
             /\ (\/ ~MapHas(linksMap, KeyOf(call'.link))
                 \/ IsNull(Refreshed(MapValue(linksMap, KeyOf(call'.link))))
                 \/ Refreshed(MapValue(linksMap, KeyOf(call'.link))).id \notin stage)
                   => managerVars' = managerVars]_vars

\* updateLinkGraphics was called for a tracked link that has a label and no
\* line, while another link has a line
C29_Witness ==
    /\ call.op = "updateLinkGraphics"
    /\ call.found
    /\ ~IsNull(MapValue(linksMap, KeyOf(call.link)).pixiText)
    /\ IsNull(MapValue(linksMap, KeyOf(call.link)).pixiGraphics)
    /\ \E v \in Entries : ~IsNull(v.pixiGraphics)

----------------------------------------------------------------------------
(* C30 *)

\* a state with every legend row hidden: the state of the run that makes
\* the same calls with tagLegend off
Hidden(st) ==
    [st EXCEPT !.tagColors =
        [k \in DOMAIN @ |->
            [@[k] EXCEPT !.legendText.alpha = HiddenAlpha,
                         !.legendGraphics.alpha = HiddenAlpha]]]

\* C30: a call with tagLegend on and the same call with tagLegend off, made
\* in states that differ only in the opacity of legend rows, give states
\* that differ only in the opacity of legend rows (same map, legend keys,
\* colours, counts, cursor, offset and stage); and an addLink changes the
\* opacity of no row that was there.  The calls are addLink and removeLink
\* (removeLinks and destroyMap are removeLink, called for one entry after
\* the other).  So two runs of the same calls, one with tagLegend on and one
\* with it off, differ after every call only in the opacity of the legend
\* rows they created.
C30_LegendVisibleOnlyAlpha ==
    /\ \A link \in AllLinks, tagColorsOn \in BOOLEAN,
          key \in getMetadataKeyForLink :
           ~MapHas(linksMap, KeyOf(link)) =>
              LET on == addLink(State, link, tagColorsOn, TRUE, key)
                  off == addLink(Hidden(State), link, tagColorsOn, FALSE, key)
              IN /\ Hidden(on) = off
                 /\ \A k \in DOMAIN tagColors :
                       /\ on.tagColors[k].legendText.alpha
                             = tagColors[k].legendText.alpha
                       /\ on.tagColors[k].legendGraphics.alpha
                             = tagColors[k].legendGraphics.alpha
    /\ \A link \in AllLinks :
           Hidden(removeLink(State, link)) = removeLink(Hidden(State), link)

\* the legend has a row that was created shown and a row that was created
\* hidden
C30_Witness ==
    \E k1, k2 \in DOMAIN tagColors :
        /\ tagColors[k1].legendText.alpha = NewAlpha
        /\ tagColors[k1].legendGraphics.alpha = NewAlpha
        /\ tagColors[k2].legendText.alpha = HiddenAlpha
        /\ tagColors[k2].legendGraphics.alpha = HiddenAlpha

----------------------------------------------------------------------------
(* C31 *)

\* the string ends with (starts with) the two line breaks of a paired label
HasTrailingOffset(text) ==
    Len(text) >= 2 /\ SubSeq(text, Len(text) - 1, Len(text)) = <<NL, NL>>
HasLeadingOffset(text) ==
    Len(text) >= 2 /\ SubSeq(text, 1, 2) = <<NL, NL>>

\* C31: the label of every tracked link that has one ends with the two line
\* breaks exactly when the link is First, starts with them exactly when it
\* is Second, and has neither exactly when it is None.
C31_OffsetFollowsPairStatus ==
    \A v \in Entries :
        ~IsNull(v.pixiText) =>
            /\ HasTrailingOffset(v.pixiText.text) <=> v.pairStatus = First
            /\ HasLeadingOffset(v.pixiText.text) <=> v.pairStatus = Second
            /\ (/\ ~HasTrailingOffset(v.pixiText.text)
                /\ ~HasLeadingOffset(v.pixiText.text)) <=> v.pairStatus = None

----------------------------------------------------------------------------
(* C32 *)

\* the link with the ends of a link swapped
Opposite(link) == [source |-> link.target, target |-> link.source]

\* C32: the key of a link is the key of no other link, so the entry the map
\* holds under the key of a link is the entry of that link, and an entry is
\* paired only when its opposite link is tracked.
C32_KeyInjective ==
    /\ \A v \in Entries, link \in DashLinks :
           KeyOf(link) = KeyOf(v.obsidianLink) => link = v.obsidianLink
    /\ \A v \in Entries :
           v.pairStatus # None
              => \E w \in Entries : w.obsidianLink = Opposite(v.obsidianLink)

----------------------------------------------------------------------------
(* C33 *)

\* C33: updateLinkGraphics never divides by the length of a link of length
\* zero: a link from a node to itself, or a link whose two ends are at the
\* same position.
C33_NoZeroLength ==
    call.op = "updateLinkGraphics"
        => \A i \in DOMAIN call.divisors : call.divisors[i] # 0

====
